---- MODULE Spec2Model ----
(***************************************************************************)
(* Model of the integer-sequence codec of src/serialize.ts: serialize      *)
(* packs a sequence of integers into a string over a 64-symbol alphabet,   *)
(* deserialize unpacks it.  Strings are sequences of one-character         *)
(* strings; bit strings are sequences of "0" and "1".                      *)
(***************************************************************************)
EXTENDS Integers, Sequences, FiniteSets, TLC

\* ------------------------------------------------------------------ bounds
MaxLen == 2      \* short input sequences: every sequence up to this length
MaxOver == 1     \* oversized inputs: lengths 1024 .. 1024 + MaxOver
MaxStr == 3      \* decode inputs: every string up to this length
MaxTail == 1     \* strings appended to an encoded string: up to this length

\* ------------------------------------------------- JavaScript primitives
\* parseInt of a string with no digits
NaN == -1

\* Math.max() of no arguments; below every integer the model compares it to
NegInfinity == -1000000

Min(a, b) == IF a < b THEN a ELSE b

RECURSIVE Pow2(_)
Pow2(k) == IF k = 0 THEN 1 ELSE 2 * Pow2(k - 1)

\* n.toString(2) for an integer n >= 0: binary digits, no leading zeros
RECURSIVE ToString2(_)
ToString2(n) ==
    IF n < 2 THEN << IF n = 1 THEN "1" ELSE "0" >>
    ELSE Append(ToString2(n \div 2), IF n % 2 = 1 THEN "1" ELSE "0")

\* s.padStart(w, c): pads on the left up to length w, never truncates
PadStart(s, w, c) ==
    IF Len(s) >= w THEN s ELSE [i \in 1..(w - Len(s)) |-> c] \o s

\* s.padEnd(w, c): pads on the right up to length w, never truncates
PadEnd(s, w, c) ==
    IF Len(s) >= w THEN s ELSE s \o [i \in 1..(w - Len(s)) |-> c]

\* s.substr(start, len), start 0-based: clipped at the end of s
SubStr(s, start, len) ==
    LET avail == IF Len(s) - start < 0 THEN 0 ELSE Len(s) - start
    IN  [i \in 1..Min(len, avail) |-> s[start + i]]

\* parseInt(s, 2) for s over "0"/"1": NaN for the empty string
RECURSIVE BinValue(_, _)
BinValue(s, k) ==
    IF k = 0 THEN 0 ELSE 2 * BinValue(s, k - 1) + (IF s[k] = "1" THEN 1 ELSE 0)

ParseInt2(s) == IF Len(s) = 0 THEN NaN ELSE BinValue(s, Len(s))

\* string concatenation of pieces[lo..hi], in order
RECURSIVE Flatten(_, _, _)
Flatten(pieces, lo, hi) ==
    IF lo > hi THEN << >>
    ELSE IF lo = hi THEN pieces[lo]
    ELSE LET mid == (lo + hi) \div 2
         IN  Flatten(pieces, lo, mid) \o Flatten(pieces, mid + 1, hi)

\* ------------------------------------------------------------- the codec
BASE64_CHARS ==
    << "A","B","C","D","E","F","G","H","I","J","K","L","M",
       "N","O","P","Q","R","S","T","U","V","W","X","Y","Z",
       "a","b","c","d","e","f","g","h","i","j","k","l","m",
       "n","o","p","q","r","s","t","u","v","w","x","y","z",
       "0","1","2","3","4","5","6","7","8","9","+","/" >>

\* the 0-based position of every symbol of BASE64_CHARS
Position ==
    [ch \in {BASE64_CHARS[i] : i \in 1..Len(BASE64_CHARS)} |->
        (CHOOSE i \in 1..Len(BASE64_CHARS) : BASE64_CHARS[i] = ch) - 1]

\* mutant: a missing symbol is taken for the first one
IndexOf_NoMiss(ch) == IF ch \in DOMAIN Position THEN Position[ch] ELSE 0

\* BASE64_CHARS.indexOf(ch): 0-based position, -1 when absent
IndexOf(ch) == IF ch \in DOMAIN Position THEN Position[ch] ELSE -1

MinValue == 1
MaxValue == 300
\* mutant: the lower limit off by one
OutOfRange_OffByOne(num) == num < 0 \/ num > MaxValue

OutOfRange(num) == num < MinValue \/ num > MaxValue

\* the maximum by halves, so that long sequences do not nest deeply
RECURSIVE MaxRange(_, _, _)
MaxRange(numbers, lo, hi) ==
    IF lo > hi THEN NegInfinity
    ELSE IF hi - lo < 8 THEN
         LET m == MaxRange(numbers, lo, hi - 1)
         IN  IF numbers[hi] > m THEN numbers[hi] ELSE m
    ELSE LET mid == (lo + hi) \div 2
             a == MaxRange(numbers, lo, mid)
             b == MaxRange(numbers, mid + 1, hi)
         IN  IF a > b THEN a ELSE b

MathMax(numbers) == MaxRange(numbers, 1, Len(numbers))

\* mutant: the first threshold inclusive
determineBitsPerNumber_Inclusive(numbers) ==
    LET max == MathMax(numbers)
    IN  IF max <= 10 THEN 4
        ELSE IF max < 100 THEN 7
        ELSE 9

determineBitsPerNumber(numbers) ==
    LET max == MathMax(numbers)
    IN  IF max < 10 THEN 4
        ELSE IF max < 100 THEN 7
        ELSE 9

\* mutant: the codes of widths 7 and 9 swapped
BitsCode_Swapped(bitsPerNumber) ==
    IF bitsPerNumber = 4 THEN << "0", "0" >>
    ELSE IF bitsPerNumber = 7 THEN << "1", "0" >>
    ELSE IF bitsPerNumber = 9 THEN << "0", "1" >>
    ELSE << >>

\* the 2-bit code serialize writes for a width, << >> for an unsupported one
BitsCode(bitsPerNumber) ==
    IF bitsPerNumber = 4 THEN << "0", "0" >>
    ELSE IF bitsPerNumber = 7 THEN << "0", "1" >>
    ELSE IF bitsPerNumber = 9 THEN << "1", "0" >>
    ELSE << >>

LengthThreshold == 64
ShortLengthBits == 6
LongLengthBits == 10

\* mutant: the short field used up to and including the threshold
LengthBits_Inclusive(n) ==
    IF n <= LengthThreshold
    THEN << "0" >> \o PadStart(ToString2(n), ShortLengthBits, "0")
    ELSE << "1" >> \o PadStart(ToString2(n), LongLengthBits, "0")

\* mutant: the long field cut to its low 10 bits
LengthBits_Wrapped(n) ==
    IF n < LengthThreshold
    THEN << "0" >> \o PadStart(ToString2(n), ShortLengthBits, "0")
    ELSE << "1" >> \o PadStart(ToString2(n % Pow2(LongLengthBits)), LongLengthBits, "0")

\* flag and length field
LengthBits(n) ==
    IF n < LengthThreshold
    THEN << "0" >> \o PadStart(ToString2(n), ShortLengthBits, "0")
    ELSE << "1" >> \o PadStart(ToString2(n), LongLengthBits, "0")

\* one element, left-padded to the width
NumberBits(num, bitsPerNumber) == PadStart(ToString2(num), bitsPerNumber, "0")

\* bitStr before the padding
RawBits(numbers) ==
    LET bitsPerNumber == determineBitsPerNumber(numbers)
        pieces == [i \in 1..Len(numbers) |-> NumberBits(numbers[i], bitsPerNumber)]
    IN  LengthBits(Len(numbers)) \o BitsCode(bitsPerNumber)
          \o Flatten(pieces, 1, Len(numbers))

ChunkBits == 6

\* mutant: a full chunk of padding when the length is already a multiple
Padding_NoWrap(len) == ChunkBits - (len % ChunkBits)

Padding(len) == (ChunkBits - (len % ChunkBits)) % ChunkBits

\* bitStr after the padding
PaddedBits(numbers) ==
    LET raw == RawBits(numbers)
    IN  PadEnd(raw, Len(raw) + Padding(Len(raw)), "0")

\* one symbol per group of 6 bits
Pack(bitStr) ==
    [k \in 1..((Len(bitStr) + ChunkBits - 1) \div ChunkBits) |->
        BASE64_CHARS[ParseInt2(SubStr(bitStr, ChunkBits * (k - 1), ChunkBits)) + 1]]

serialize(numbers) ==
    IF \E i \in 1..Len(numbers) : OutOfRange(numbers[i])
    THEN [kind |-> "RangeError"]
    ELSE IF BitsCode(determineBitsPerNumber(numbers)) = << >>
    THEN [kind |-> "UnsupportedWidth"]
    ELSE [kind |-> "ok", value |-> Pack(PaddedBits(numbers))]

\* the bit string deserialize rebuilds from the symbols
Unpack(serialized) ==
    LET pieces == [k \in 1..Len(serialized) |->
                     PadStart(ToString2(IndexOf(serialized[k])), ChunkBits, "0")]
    IN  Flatten(pieces, 1, Len(serialized))

\* the cursor after the length field, and the count read from it
HeaderOf(bitStr) ==
    IF Len(bitStr) >= 1 /\ bitStr[1] = "0"
    THEN [count |-> ParseInt2(SubStr(bitStr, 1, ShortLengthBits)),
          pos |-> 1 + ShortLengthBits]
    ELSE [count |-> ParseInt2(SubStr(bitStr, 1, LongLengthBits)),
          pos |-> 1 + LongLengthBits]

\* mutant: code 11 read as width 9
WidthOf_NoReject(bitsCode) ==
    IF bitsCode = << "0", "0" >> THEN 4
    ELSE IF bitsCode = << "0", "1" >> THEN 7
    ELSE IF Len(bitsCode) = 2 THEN 9
    ELSE 0

\* the width of a 2-bit code, 0 for any other string
WidthOf(bitsCode) ==
    IF bitsCode = << "0", "0" >> THEN 4
    ELSE IF bitsCode = << "0", "1" >> THEN 7
    ELSE IF bitsCode = << "1", "0" >> THEN 9
    ELSE 0

\* mutant: elements read up to the end of the bit string
ReadNumbers_ToEnd(bitStr, pos, count, bitsPerNumber) ==
    [i \in 1..((Len(bitStr) - pos) \div bitsPerNumber) |->
        ParseInt2(SubStr(bitStr, pos + (i - 1) * bitsPerNumber, bitsPerNumber))]

\* the element loop: count chunks of bitsPerNumber bits from pos
ReadNumbers(bitStr, pos, count, bitsPerNumber) ==
    [i \in 1..(IF count = NaN THEN 0 ELSE count) |->
        ParseInt2(SubStr(bitStr, pos + (i - 1) * bitsPerNumber, bitsPerNumber))]

\* the width code deserialize reads behind the length field
CodeOf(bitStr) == SubStr(bitStr, HeaderOf(bitStr).pos, 2)

deserialize(serialized) ==
    IF \E k \in 1..Len(serialized) : IndexOf(serialized[k]) = -1
    THEN LET k == CHOOSE j \in 1..Len(serialized) :
                    /\ IndexOf(serialized[j]) = -1
                    /\ \A h \in 1..(j - 1) : IndexOf(serialized[h]) # -1
         IN  [kind |-> "InvalidCharacter", ch |-> serialized[k]]
    ELSE LET bitStr == Unpack(serialized)
             hdr == HeaderOf(bitStr)
             bitsPerNumber == WidthOf(CodeOf(bitStr))
         IN  IF bitsPerNumber = 0
             THEN [kind |-> "InvalidWidthCode"]
             ELSE [kind |-> "ok",
                   value |-> ReadNumbers(bitStr, hdr.pos + 2, hdr.count, bitsPerNumber)]

\* ---------------------------------------------------------------- inputs
\* element values around every threshold of the codec, two of them invalid
Vals == {0, 1, 9, 10, 99, 100, 300, 301}

RECURSIVE SeqsUpTo(_, _)
SeqsUpTo(S, n) ==
    IF n = 0 THEN {<< >>}
    ELSE LET shorter == SeqsUpTo(S, n - 1)
         IN  shorter \cup {Append(s, x) : s \in {t \in shorter : Len(t) = n - 1}, x \in S}

ShortInputs == SeqsUpTo(Vals, MaxLen)

\* the value ranges of the harness's boundary tests
Ranges == {<<1, 9>>, <<10, 99>>, <<100, 300>>}

\* n elements cycling through a range, the last one replaced by x
Ramp(n, r, x) ==
    [i \in 1..n |-> IF i = n THEN x ELSE r[1] + ((i - 1) % (r[2] - r[1] + 1))]

MaxCount == Pow2(LongLengthBits) - 1

\* lengths around the switch of the length field and around its ceiling
LongLens ==
    {LengthThreshold - 1, LengthThreshold, MaxCount, 2 * (MaxCount + 1) + 3}
        \cup ((MaxCount + 1)..(MaxCount + 1 + MaxOver))

LongInputs == {Ramp(n, r, x) : n \in LongLens, r \in Ranges, x \in Vals}

Inputs == ShortInputs \cup LongInputs

\* symbols whose bits place every flag and width code, and two that are not
\* in the alphabet
DecodeChars == {"A", "B", "I", "Q", "Y", "a", "g", "/", "#", "="}

DecodeInputs == SeqsUpTo(DecodeChars, MaxStr)

TailChars == {"A", "/"}

Tails == SeqsUpTo(TailChars, MaxTail)

\* ----------------------------------------------------------- the harness
VARIABLES pc, numbers, serialized, input, deserialized

vars == << pc, numbers, serialized, input, deserialized >>

None == [kind |-> "none"]

Init ==
    /\ pc = "idle"
    /\ numbers = << >>
    /\ serialized = None
    /\ input = << >>
    /\ deserialized = None

\* serialize(test.data)
Serialize(data) ==
    /\ pc = "idle"
    /\ numbers' = data
    /\ serialized' = serialize(data)
    /\ pc' = "serialized"
    /\ UNCHANGED << input, deserialized >>

\* deserialize(serialized), the encoded string followed by tail
DeserializeEncoded(tail) ==
    /\ pc = "serialized"
    /\ serialized.kind = "ok"
    /\ input' = serialized.value \o tail
    /\ deserialized' = deserialize(serialized.value \o tail)
    /\ pc' = "roundtrip"
    /\ UNCHANGED << numbers, serialized >>

\* deserialize of a string that serialize did not produce
DeserializeString(str) ==
    /\ pc = "idle"
    /\ input' = str
    /\ deserialized' = deserialize(str)
    /\ pc' = "deserialized"
    /\ UNCHANGED << numbers, serialized >>

\* the next test of the loop
NextTest ==
    /\ pc # "idle"
    /\ pc' = "idle"
    /\ numbers' = << >>
    /\ serialized' = None
    /\ input' = << >>
    /\ deserialized' = None

Next ==
    \/ \E data \in Inputs : Serialize(data)
    \/ \E tail \in Tails : DeserializeEncoded(tail)
    \/ \E str \in DecodeInputs : DeserializeString(str)
    \/ NextTest

Spec == Init /\ [][Next]_vars

\* ------------------------------------------------------------ properties
\* the 64 symbols A-Z a-z 0-9 + /
Alphabet == {BASE64_CHARS[i] : i \in 1..Len(BASE64_CHARS)}

InRange(s) == \A i \in 1..Len(s) : s[i] >= 1 /\ s[i] <= 300

OverAlphabet(str) == \A k \in 1..Len(str) : str[k] \in Alphabet

\* the width the specification prescribes for a maximum
LadderWidth(max) == IF max < 10 THEN 4 ELSE IF max <= 99 THEN 7 ELSE 9

\* the header code the specification prescribes for a width
LadderCode(w) ==
    IF w = 4 THEN << "0", "0" >> ELSE IF w = 7 THEN << "0", "1" >> ELSE << "1", "0" >>

MaxOf(s) == CHOOSE m \in {s[i] : i \in 1..Len(s)} : \A i \in 1..Len(s) : s[i] <= m

CeilDiv(a, b) == (a + b - 1) \div b

Encoding == pc \in {"serialized", "roundtrip"}

Decoding == pc \in {"roundtrip", "deserialized"}

\* C1: for every sequence of 0 to 1023 integers, all in [1,300], serialize
\* returns a string, and deserialize of that string is the sequence itself
C1_RoundTrip ==
    /\ (pc = "serialized" /\ InRange(numbers) /\ Len(numbers) <= 1023)
          => serialized.kind = "ok"
    /\ (pc = "roundtrip" /\ input = serialized.value /\ Len(numbers) <= 1023)
          => /\ deserialized.kind = "ok"
             /\ deserialized.value = numbers

C1_Witness ==
    /\ pc = "roundtrip"
    /\ input = serialized.value
    /\ Len(numbers) = 1023
    /\ numbers[1023] = 300
    /\ deserialized.kind = "ok"
    /\ deserialized.value = numbers

\* C2: serialize fails with the range error exactly when some element is
\* below 1 or above 300, and a failed call yields no output string
C2_RangeError ==
    pc = "serialized" =>
        /\ serialized.kind = "RangeError"
              <=> \E i \in 1..Len(numbers) : numbers[i] < 1 \/ numbers[i] > 300
        /\ serialized.kind = "RangeError" => "value" \notin DOMAIN serialized

C2_Witness ==
    /\ pc = "serialized"
    /\ Len(numbers) = 1023
    /\ numbers[1] = 1
    /\ numbers[1023] = 301
    /\ serialized.kind = "RangeError"

\* C3: deserialize of a string with a character outside the alphabet fails
\* with the invalid-character error, which names such a character, whatever
\* the rest of the string
C3_InvalidCharacter ==
    (Decoding /\ ~OverAlphabet(input)) =>
        /\ deserialized.kind = "InvalidCharacter"
        /\ deserialized.ch \in {input[k] : k \in 1..Len(input)} \ Alphabet
        /\ "value" \notin DOMAIN deserialized

C3_Witness ==
    /\ pc = "deserialized"
    /\ input = << "A", "Y", "#" >>
    /\ deserialized.kind = "InvalidCharacter"
    /\ deserialized.ch = "#"

\* the elements a reader of width w returns for the bits of str, whose
\* header ends at bit hdr
ReadAs(str, hdr, count, w) ==
    LET bits == Unpack(str)
    IN  [i \in 1..count |-> ParseInt2(SubStr(bits, hdr + (i - 1) * w, w))]

\* C4: when the two bits behind the length field are 11, deserialize fails
\* with the invalid-width-code error; when they are 00, 01 or 10 it reads
\* its elements with width 4, 7 or 9 and does not raise that error
C4_WidthCode ==
    (Decoding /\ OverAlphabet(input) /\ Len(input) >= 1) =>
        LET bits == Unpack(input)
            at == IF bits[1] = "0" THEN 7 ELSE 11
            count == ParseInt2(SubStr(bits, 1, at - 1))
            code == SubStr(bits, at, 2)
        IN  Len(bits) >= at + 2 =>
              /\ code = << "1", "1" >> =>
                    /\ deserialized.kind = "InvalidWidthCode"
                    /\ "value" \notin DOMAIN deserialized
              /\ code # << "1", "1" >> =>
                    /\ deserialized.kind = "ok"
                    /\ deserialized.value =
                          ReadAs(input, at + 2, count,
                                 IF code = << "0", "0" >> THEN 4
                                 ELSE IF code = << "0", "1" >> THEN 7 ELSE 9)

C4_Witness ==
    /\ pc = "deserialized"
    /\ input = << "g", "B", "g" >>
    /\ deserialized.kind = "InvalidWidthCode"

\* what C5 says of the string serialize returns for numbers: the header
\* code and the element fields follow the ladder, and every element fits
WidthWritten ==
    LET bits == Unpack(serialized.value)
        n == Len(numbers)
        w == LadderWidth(MaxOf(numbers))
        at == Len(LengthBits(n))
    IN  /\ SubStr(bits, at, 2) = LadderCode(w)
        /\ \A i \in 1..n :
              /\ Len(SubStr(bits, at + 2 + (i - 1) * w, w)) = w
              /\ ParseInt2(SubStr(bits, at + 2 + (i - 1) * w, w)) = numbers[i]
              /\ Len(ToString2(numbers[i])) <= w

\* what C5 says of the width deserialize reads back
WidthReadBack ==
    WidthOf(CodeOf(Unpack(serialized.value))) = LadderWidth(MaxOf(numbers))

C6_LengthField ==
    /\ (pc = "serialized" /\ serialized.kind = "ok" /\ Len(numbers) <= 1023) =>
          LET bits == Unpack(serialized.value)
              n == Len(numbers)
              w == LadderWidth(MathMax(numbers))
          IN  /\ bits[1] = "0" <=> n < 64
              /\ n < 64 =>
                    /\ ParseInt2(SubStr(bits, 1, 6)) = n
                    /\ SubStr(bits, 7, 2) = LadderCode(w)
              /\ n >= 64 =>
                    /\ ParseInt2(SubStr(bits, 1, 10)) = n
                    /\ SubStr(bits, 11, 2) = LadderCode(w)
    /\ (pc = "roundtrip" /\ Len(numbers) <= 1023) =>
          /\ deserialized.kind = "ok"
          /\ Len(deserialized.value) = Len(numbers)

C6_Witness ==
    /\ pc = "roundtrip"
    /\ Len(numbers) = 64
    /\ Unpack(serialized.value)[1] = "1"
    /\ Len(deserialized.value) = 64

\* C7: the string serialize returns for n <= 1023 elements of width w is
\* over the alphabet and ceil(totalBits/6) long, totalBits = 1 + (6 or 10)
\* + 2 + n*w, and its bits are the unpadded bits followed by 0..5 zeros
C7_AlphabetAndSize ==
    (pc = "serialized" /\ serialized.kind = "ok" /\ Len(numbers) <= 1023) =>
        LET n == Len(numbers)
            w == LadderWidth(MathMax(numbers))
            totalBits == 1 + (IF n < 64 THEN 6 ELSE 10) + 2 + n * w
            bits == Unpack(serialized.value)
            raw == RawBits(numbers)
            pad == Len(bits) - totalBits
        IN  /\ OverAlphabet(serialized.value)
            /\ Len(serialized.value) = CeilDiv(totalBits, 6)
            /\ Len(raw) = totalBits
            /\ pad \in 0..5
            /\ SubSeq(bits, 1, totalBits) = raw
            /\ \A j \in (totalBits + 1)..Len(bits) : bits[j] = "0"

C7_Witness ==
    /\ pc = "serialized"
    /\ serialized.kind = "ok"
    /\ Len(numbers) = 64
    /\ MathMax(numbers) = 9
    /\ Len(serialized.value) = 45
    /\ Len(RawBits(numbers)) = 269

\* C8: deserialize of the string serialize returns for a sequence of at
\* most 1023 elements, followed by any string over the alphabet, is the
\* sequence
C8_LeftoverIgnored ==
    (pc = "roundtrip" /\ Len(numbers) <= 1023 /\ OverAlphabet(input)
        /\ SubSeq(input, 1, Len(serialized.value)) = serialized.value)
        => /\ deserialized.kind = "ok"
           /\ deserialized.value = numbers

C8_Witness ==
    /\ pc = "roundtrip"
    /\ Len(numbers) = 63
    /\ Len(input) = Len(serialized.value) + 1
    /\ input[Len(input)] = "/"
    /\ deserialized.kind = "ok"
    /\ deserialized.value = numbers

\* the bits the header of str declares: the header itself and count
\* elements of the declared width (no elements when the header is cut short
\* or its code is 11)
DeclaredBits(str) ==
    LET bits == Unpack(str)
        at == IF Len(bits) >= 1 /\ bits[1] = "0" THEN 7 ELSE 11
        count == ParseInt2(SubStr(bits, 1, at - 1))
        code == SubStr(bits, at, 2)
        w == IF code = << "0", "0" >> THEN 4
             ELSE IF code = << "0", "1" >> THEN 7
             ELSE IF code = << "1", "0" >> THEN 9 ELSE 0
    IN  IF Len(bits) < at + 2 THEN at + 2 ELSE at + 2 + count * w

\* C9: deserialize of a string over the alphabet that has fewer bits than
\* its header declares fails with an error and returns no sequence
C9_NoBestEffort ==
    (Decoding /\ OverAlphabet(input) /\ Len(Unpack(input)) < DeclaredBits(input))
        => deserialized.kind \notin {"ok"}

====
